---- MODULE Spec2Model ----
(***************************************************************************)
(* The safe wrapper around the LightGBM C API (src/src/model.rs and        *)
(* src/src/error.rs): loading a Booster, the metadata queries, the         *)
(* two-phase dense prediction, error translation and Drop.                 *)
(*                                                                         *)
(* The native library is the environment.  A native entry point is the    *)
(* set of ways one call to it may end: its arguments together with the     *)
(* return code and what it left in its output parameters.  A handler is    *)
(* the set of ways one invocation may end (the native calls it issued, in  *)
(* order, and its result), and one action; the variable op holds the       *)
(* activation until the caller takes the result (Return).                  *)
(*                                                                         *)
(* Integer widths are scaled: i32 is I32Bits wide, usize and i64 are twice *)
(* that (the build script accepts 64-bit targets only).                    *)
(*                                                                         *)
(* Three specifications.  Spec: the wrapper over a native library that is  *)
(* free in what it returns.  SpecAlloc: the wrapper over a native library  *)
(* that hands out handles as an allocator does; heap is the native         *)
(* library's own record of the handles it holds.  SpecBuild: the build     *)
(* script (src/build.rs), stage by stage, over the target triples and the  *)
(* outcomes of its downloads.                                              *)
(***************************************************************************)
EXTENDS Integers, Sequences, FiniteSets

\* ---------------------------------------------------------------- bounds

I32Bits == 3
MaxBoosters == 2
MaxHandle == 2
MaxBytes == 2
MaxDataLen == 2
MaxOutLen == 2

\* ------------------------------------------------------- machine integers

RECURSIVE Pow2(_)
Pow2(n) == IF n = 0 THEN 1 ELSE 2 * Pow2(n - 1)

I32Min == -Pow2(I32Bits - 1)
I32Max == Pow2(I32Bits - 1) - 1
I32 == I32Min..I32Max

USizeBits == 2 * I32Bits
USizeMod == Pow2(USizeBits)
USizeMax == USizeMod - 1
ISizeMax == Pow2(USizeBits - 1) - 1
I64Min == -Pow2(USizeBits - 1)
I64Max == Pow2(USizeBits - 1) - 1

\* A conversion that takes the magnitude of a negative count.
AsUsize_magnitude(x) == IF x < 0 THEN -x ELSE x

\* `x as usize` for a signed x no wider than usize: sign extension, then
\* reinterpretation modulo 2^USizeBits.
AsUsize(x) == IF x < 0 THEN USizeMod + x ELSE x

None == [none |-> TRUE]
Some(v) == [some |-> v]

\* A multiplication that wraps instead of reporting the overflow.
checked_mul_wrapping(a, b) == Some((a * b) % USizeMod)

\* usize::checked_mul
checked_mul(a, b) == IF a * b > USizeMax THEN None ELSE Some(a * b)

\* size_of::<f64>()
F64Size == 8

\* ------------------------------------------------------- bytes and text

\* NUL, 'A', and the two bytes of U+00E9; 0xC3 or 0xA9 alone is not UTF-8.
ByteVals == {0, 65, 195, 169}

RECURSIVE SeqsUpTo(_, _)
SeqsUpTo(S, n) ==
    IF n = 0 THEN {<<>>}
    ELSE LET shorter == SeqsUpTo(S, n - 1)
         IN  shorter \cup {Append(s, x) : s \in {t \in shorter : Len(t) = n - 1}, x \in S}

ByteStrings == SeqsUpTo(ByteVals, MaxBytes)

IsCont(b) == b >= 128 /\ b <= 191

\* Width of the UTF-8 sequence a lead byte announces, 0 for a byte that cannot
\* lead one.
Utf8Width(b) ==
    IF b < 128 THEN 1
    ELSE IF b >= 194 /\ b <= 223 THEN 2
    ELSE IF b >= 224 /\ b <= 239 THEN 3
    ELSE IF b >= 240 /\ b <= 244 THEN 4
    ELSE 0

\* The range the second byte of a sequence must lie in.
SecondOk(lead, b) ==
    IF lead = 224 THEN b >= 160 /\ b <= 191
    ELSE IF lead = 237 THEN b >= 128 /\ b <= 159
    ELSE IF lead = 240 THEN b >= 144 /\ b <= 191
    ELSE IF lead = 244 THEN b >= 128 /\ b <= 143
    ELSE IsCont(b)

\* std::str::from_utf8: the number of leading bytes that are valid UTF-8
\* (Utf8Error::valid_up_to); the whole length when the input is valid.
RECURSIVE ValidUpTo(_, _)
ValidUpTo(bytes, i) ==
    IF i >= Len(bytes) THEN Len(bytes)
    ELSE LET lead == bytes[i + 1]
             w == Utf8Width(lead)
         IN  IF w = 0 \/ i + w > Len(bytes) THEN i
             ELSE IF w >= 2 /\ ~SecondOk(lead, bytes[i + 2]) THEN i
             ELSE IF \E k \in 3..w : ~IsCont(bytes[i + k]) THEN i
             ELSE ValidUpTo(bytes, i + w)

from_utf8(bytes) ==
    IF ValidUpTo(bytes, 0) = Len(bytes) THEN Some(bytes)
    ELSE [utf8_error |-> ValidUpTo(bytes, 0)]

\* Path::to_str: Some(text) exactly when the path's bytes are valid UTF-8.
to_str(path) == IF ValidUpTo(path, 0) = Len(path) THEN Some(path) ELSE None

\* CString::new: rejects an interior NUL (NulError carries its position),
\* otherwise appends the terminator.
CString_new(text) ==
    IF \E i \in 1..Len(text) : text[i] = 0
    THEN [nul_error |-> (CHOOSE i \in 1..Len(text) :
                            text[i] = 0 /\ \A j \in 1..(i - 1) : text[j] # 0) - 1]
    ELSE Some(text \o <<0>>)

\* --------------------------------------------------------------- results

\* A String built by format!: the template and the values put into it.
Text(template, args) == [template |-> template, args |-> args]

LightGBMError(description) == [description |-> description]

Ok(v) == [kind |-> "Ok", value |-> v]
Err(e) == [kind |-> "Err", error |-> e]
Panic == [kind |-> "Panic"]
Unit == <<>>

\* What a handler did: the native calls it issued, in order, and its result.
Done(calls, result) == [calls |-> calls, result |-> result]

\* ------------------------------------------------------ the native layer

NullHandle == 0
Handles == 0..MaxHandle
NullPtr == [null |-> TRUE]
Buffer(v) == [null |-> FALSE, vec |-> v]

\* Bytes LGBM_GetLastError may point at: "E", and a byte string that is not
\* UTF-8.
NativeMsgs == {<<69>>, <<255>>}
RetCodes == {0, -1, 1}
NativeLens == {I64Min, -1, I64Max} \cup (0..MaxOutLen)
OutVals == {0, 1}

LGBM_GetLastError == {[fn |-> "LGBM_GetLastError", ret |-> m] : m \in NativeMsgs}

\* Every entry point leaves its output parameters as they were passed when it
\* fails.  An outcome <<c, v>> is the return code and the value the output
\* parameter holds when the call returns.
Outcomes(passed, written) ==
    {<<0, v>> : v \in written} \cup {<<c, passed>> : c \in RetCodes \ {0}}

\* On success the handle out-parameter may hold any handle, NullHandle
\* included.
LGBM_BoosterCreateFromModelfile(filename, out_num_iterations, out) ==
    {[fn |-> "LGBM_BoosterCreateFromModelfile", filename |-> filename,
      out_num_iterations |-> out_num_iterations, out |-> out,
      ret |-> r[1], out_after |-> r[2]] : r \in Outcomes(out, Handles)}

LGBM_BoosterLoadModelFromString(model_str, out_num_iterations, out) ==
    {[fn |-> "LGBM_BoosterLoadModelFromString", model_str |-> model_str,
      out_num_iterations |-> out_num_iterations, out |-> out,
      ret |-> r[1], out_after |-> r[2]] : r \in Outcomes(out, Handles)}

LGBM_BoosterGetNumFeature(handle, out_len) ==
    {[fn |-> "LGBM_BoosterGetNumFeature", handle |-> handle, out_len |-> out_len,
      ret |-> r[1], out_after |-> r[2]] : r \in Outcomes(out_len, I32)}

LGBM_BoosterGetNumClasses(handle, out_len) ==
    {[fn |-> "LGBM_BoosterGetNumClasses", handle |-> handle, out_len |-> out_len,
      ret |-> r[1], out_after |-> r[2]] : r \in Outcomes(out_len, I32)}

\* The length query (out_result null) may report any length.  The fill call
\* reports the length passed in, or 0, and stores one value in every slot of
\* the buffer (0 leaves it as it was passed).
LGBM_BoosterPredictForMat(handle, data, data_type, nrow, ncol, is_row_major, predict_type, start_iteration, num_iteration, out_len, out_result) ==
    {[fn |-> "LGBM_BoosterPredictForMat", handle |-> handle, data |-> data,
      data_type |-> data_type, nrow |-> nrow, ncol |-> ncol,
      is_row_major |-> is_row_major, predict_type |-> predict_type,
      start_iteration |-> start_iteration, num_iteration |-> num_iteration,
      parameter |-> NullPtr, out_len |-> out_len, out_result |-> out_result,
      ret |-> r[1], out_len_after |-> r[2][1], out_result_after |-> r[2][2]] :
        r \in Outcomes(<<out_len, out_result>>,
                 IF out_result.null
                 THEN {<<n, out_result>> : n \in NativeLens}
                 ELSE {<<n, Buffer([i \in 1..Len(out_result.vec) |-> v])>> :
                          n \in {out_len, 0}, v \in OutVals})}

LGBM_BoosterFree(handle) ==
    {[fn |-> "LGBM_BoosterFree", handle |-> handle, ret |-> c] : c \in RetCodes}

\* The handles that stand for a model inside the native library after `calls`
\* were made, `live` being those before: a create or load call that returns 0
\* makes the handle it stored one, a free call ends it.
Created(c) ==
    /\ c.fn \in {"LGBM_BoosterCreateFromModelfile",
                 "LGBM_BoosterLoadModelFromString"}
    /\ c.ret = 0

RECURSIVE HeapAfter(_, _)
HeapAfter(live, calls) ==
    IF calls = <<>> THEN live
    ELSE LET c == Head(calls)
         IN  HeapAfter(IF Created(c) THEN live \cup {c.out_after}
                       ELSE IF c.fn = "LGBM_BoosterFree" THEN live \ {c.handle}
                       ELSE live,
                       Tail(calls))

\* ------------------------------------------------------------- error.rs

fetch_lightgbm_error ==
    {LET str_slice == IF to_str(c_str.ret) = None
                      THEN Text("Unknown error", <<>>)
                      ELSE Text("{}", to_str(c_str.ret).some)
     IN  Done(<<c_str>>, LightGBMError(str_slice)) : c_str \in LGBM_GetLastError}

\* A check that lets every return code pass.
check_return_value_ignored(ret_val) == {Done(<<>>, Ok(Unit))}

\* A check that takes only negative codes for failures.
check_return_value_negative_only(ret_val) ==
    IF ret_val >= 0 THEN {Done(<<>>, Ok(Unit))}
    ELSE {Done(e.calls, Err(e.result)) : e \in fetch_lightgbm_error}

\* A check that reports a fixed message without asking the native library.
check_return_value_generic(ret_val) ==
    IF ret_val = 0 THEN {Done(<<>>, Ok(Unit))}
    ELSE {Done(<<>>, Err(LightGBMError(Text("Unknown error", <<>>))))}

check_return_value(ret_val) ==
    IF ret_val = 0 THEN {Done(<<>>, Ok(Unit))}
    ELSE {Done(e.calls, Err(e.result)) : e \in fetch_lightgbm_error}

\* ------------------------------------------------------------- model.rs

Booster(handle) == [handle |-> handle]

load(path) ==
    LET path_str == to_str(path)
    IN  IF path_str = None
        THEN {Done(<<>>, Err(LightGBMError(
                  Text("Path contains invalid UTF-8 characters", <<>>))))}
        ELSE
        LET path_c_str == CString_new(path_str.some)
        IN  IF "nul_error" \in DOMAIN path_c_str
            THEN {Done(<<>>, Err(LightGBMError(
                      Text("Path contains NUL byte: {}",
                           <<path_c_str.nul_error>>))))}
            ELSE UNION {
                {IF chk.result.kind = "Err"
                 THEN Done(<<call>> \o chk.calls, chk.result)
                 ELSE Done(<<call>>, Ok(Booster(call.out_after))) :
                    chk \in check_return_value(call.ret)} :
                call \in LGBM_BoosterCreateFromModelfile(
                             path_c_str.some, 0, NullHandle)}

\* A load that hands the text to the native library without looking for NUL.
load_from_string_unchecked(model_str) ==
    UNION {
        {IF chk.result.kind = "Err"
         THEN Done(<<call>> \o chk.calls, chk.result)
         ELSE Done(<<call>>, Ok(Booster(call.out_after))) :
            chk \in check_return_value(call.ret)} :
        call \in LGBM_BoosterLoadModelFromString(
                     model_str \o <<0>>, 0, NullHandle)}

load_from_string(model_str) ==
    LET model_c_str == CString_new(model_str)
    IN  IF "nul_error" \in DOMAIN model_c_str
        THEN {Done(<<>>, Err(LightGBMError(
                  Text("Model string contains NUL byte: {}",
                       <<model_c_str.nul_error>>))))}
        ELSE UNION {
            {IF chk.result.kind = "Err"
             THEN Done(<<call>> \o chk.calls, chk.result)
             ELSE Done(<<call>>, Ok(Booster(call.out_after))) :
                chk \in check_return_value(call.ret)} :
            call \in LGBM_BoosterLoadModelFromString(
                         model_c_str.some, 0, NullHandle)}

\* A load that takes the bytes for text without decoding them.
load_from_buffer_unchecked(buffer) == load_from_string(buffer)

load_from_buffer(buffer) ==
    LET model_str == from_utf8(buffer)
    IN  IF "utf8_error" \in DOMAIN model_str
        THEN {Done(<<>>, Err(LightGBMError(
                  Text("Invalid UTF-8 in model buffer: {}",
                       <<model_str.utf8_error>>))))}
        ELSE load_from_string(model_str.some)

num_features(self) ==
    UNION {
        {IF chk.result.kind = "Err"
         THEN Done(<<call>> \o chk.calls, chk.result)
         ELSE Done(<<call>>, Ok(call.out_after)) :
            chk \in check_return_value(call.ret)} :
        call \in LGBM_BoosterGetNumFeature(self.handle, 0)}

num_classes(self) ==
    UNION {
        {IF chk.result.kind = "Err"
         THEN Done(<<call>> \o chk.calls, chk.result)
         ELSE Done(<<call>>, Ok(call.out_after)) :
            chk \in check_return_value(call.ret)} :
        call \in LGBM_BoosterGetNumClasses(self.handle, 0)}

\* An allocation one slot longer than asked for.
vec_zeroed_one_more(n) ==
    IF (n + 1) * F64Size > ISizeMax THEN None ELSE Some([i \in 1..(n + 1) |-> 0])

\* vec![0.0f64; n]: a request of more than isize::MAX bytes panics with
\* "capacity overflow".
vec_zeroed(n) ==
    IF n * F64Size > ISizeMax THEN None ELSE Some([i \in 1..n |-> 0])

\* The multiplication sign of the size-mismatch text is written x here.
predict(self, data, num_rows, num_cols, predict_type) ==
    LET expected_len == checked_mul(AsUsize(num_rows), AsUsize(num_cols))
    IN  IF expected_len = None
        THEN {Done(<<>>, Err(LightGBMError(
                  Text("Integer overflow when computing expected data size: num_rows ({}) * num_cols ({})",
                       <<num_rows, num_cols>>))))}
        ELSE IF expected_len.some # Len(data)
        THEN {Done(<<>>, Err(LightGBMError(
                  Text("Input data size mismatch: expected {} elements ({}x{}), got {}",
                       <<expected_len.some, num_rows, num_cols, Len(data)>>))))}
        ELSE UNION { UNION {
            IF chk1.result.kind = "Err"
            THEN {Done(<<call1>> \o chk1.calls, chk1.result)}
            ELSE
            LET out_len == call1.out_len_after
                out_result == vec_zeroed(AsUsize(out_len))
            IN  IF out_result = None THEN {Done(<<call1>>, Panic)}
                ELSE UNION {
                    {IF chk2.result.kind = "Err"
                     THEN Done(<<call1, call2>> \o chk2.calls, chk2.result)
                     ELSE Done(<<call1, call2>>, Ok(call2.out_result_after.vec)) :
                        chk2 \in check_return_value(call2.ret)} :
                    call2 \in LGBM_BoosterPredictForMat(
                                  self.handle, data, "C_API_DTYPE_FLOAT64",
                                  num_rows, num_cols, 1, predict_type, 0, -1,
                                  out_len, Buffer(out_result.some))} :
            chk1 \in check_return_value(call1.ret)} :
            call1 \in LGBM_BoosterPredictForMat(
                          self.handle, data, "C_API_DTYPE_FLOAT64", num_rows,
                          num_cols, 1, predict_type, 0, -1, 0, NullPtr)}

\* A 32-bit prediction that names the 32-bit element type in the length
\* query only.
predict_f32_tag_in_query_only(self, data, num_rows, num_cols, predict_type) ==
    {Done([k \in DOMAIN d.calls |->
              IF k = 1
              THEN [d.calls[k] EXCEPT !.data_type = "C_API_DTYPE_FLOAT32"]
              ELSE d.calls[k]],
          d.result) :
        d \in predict(self, data, num_rows, num_cols, predict_type)}

\* A prediction whose output carries a value of the instance it ran on.
predict_f32_instance_mark(self, data, num_rows, num_cols, predict_type) ==
    {Done(d.calls, IF d.result.kind = "Ok"
                   THEN Ok(<<self.handle>> \o d.result.value)
                   ELSE d.result) :
        d \in predict(self, data, num_rows, num_cols, predict_type)}

predict_f32(self, data, num_rows, num_cols, predict_type) ==
    LET expected_len == checked_mul(AsUsize(num_rows), AsUsize(num_cols))
    IN  IF expected_len = None
        THEN {Done(<<>>, Err(LightGBMError(
                  Text("Integer overflow when computing expected data size: num_rows ({}) * num_cols ({})",
                       <<num_rows, num_cols>>))))}
        ELSE IF expected_len.some # Len(data)
        THEN {Done(<<>>, Err(LightGBMError(
                  Text("Input data size mismatch: expected {} elements ({}x{}), got {}",
                       <<expected_len.some, num_rows, num_cols, Len(data)>>))))}
        ELSE UNION { UNION {
            IF chk1.result.kind = "Err"
            THEN {Done(<<call1>> \o chk1.calls, chk1.result)}
            ELSE
            LET out_len == call1.out_len_after
                out_result == vec_zeroed(AsUsize(out_len))
            IN  IF out_result = None THEN {Done(<<call1>>, Panic)}
                ELSE UNION {
                    {IF chk2.result.kind = "Err"
                     THEN Done(<<call1, call2>> \o chk2.calls, chk2.result)
                     ELSE Done(<<call1, call2>>, Ok(call2.out_result_after.vec)) :
                        chk2 \in check_return_value(call2.ret)} :
                    call2 \in LGBM_BoosterPredictForMat(
                                  self.handle, data, "C_API_DTYPE_FLOAT32",
                                  num_rows, num_cols, 1, predict_type, 0, -1,
                                  out_len, Buffer(out_result.some))} :
            chk1 \in check_return_value(call1.ret)} :
            call1 \in LGBM_BoosterPredictForMat(
                          self.handle, data, "C_API_DTYPE_FLOAT32", num_rows,
                          num_cols, 1, predict_type, 0, -1, 0, NullPtr)}

\* A destructor that leaves the handle to the native library.
drop_leak(self) == {Done(<<>>, Ok(Unit))}

\* Drop::drop: the return code of LGBM_BoosterFree is discarded.
drop(self) == {Done(<<call>>, Ok(Unit)) : call \in LGBM_BoosterFree(self.handle)}

\* ------------------------------------------------------------- lib.rs

NORMAL == 0
LEAF_INDEX == 2

\* ------------------------------------------------------------- build.rs

\* A String or &str of the build script: its characters in order.
\* str::contains: the pattern occurs at some offset.
contains(s, pat) ==
    \E i \in 0..(Len(s) - Len(pat)) : SubSeq(s, i + 1, i + Len(pat)) = pat

BuildPanic(message) == [kind |-> "Panic", message |-> message]

\* env::var("LIGHTGBM_VERSION"), unset or set.
get_lightgbm_version(LIGHTGBM_VERSION) ==
    IF LIGHTGBM_VERSION = None THEN "4.6.0" ELSE LIGHTGBM_VERSION.some

get_platform_info(target) ==
    LET os == IF contains(target, <<"a", "p", "p", "l", "e", "-", "d", "a", "r", "w", "i", "n">>)
              THEN Some("darwin")
              ELSE IF contains(target, <<"l", "i", "n", "u", "x">>)
              THEN Some("linux")
              ELSE IF contains(target, <<"w", "i", "n", "d", "o", "w", "s">>)
              THEN Some("windows")
              ELSE None
        arch == IF contains(target, <<"x", "8", "6", "_", "6", "4">>)
                THEN Some("x86_64")
                ELSE IF \/ contains(target, <<"a", "a", "r", "c", "h", "6", "4">>)
                        \/ contains(target, <<"a", "r", "m", "6", "4">>)
                THEN Some("aarch64")
                ELSE IF \/ contains(target, <<"i", "6", "8", "6">>)
                        \/ contains(target, <<"i", "5", "8", "6">>)
                THEN Some("i686")
                ELSE None
    IN  IF os = None
        THEN BuildPanic(Text("Unsupported target: {}", <<target>>))
        ELSE IF arch = None
        THEN BuildPanic(Text("Unsupported architecture for target: {}", <<target>>))
        ELSE Ok(<<os.some, arch.some>>)

\* The network and the file system are the environment: a download ends with
\* the files it wrote, or with an error.
HttpError(what) == Err(Text("Failed to download {}: HTTP {}", <<what, 404>>))

\* Ok carries the files left in OUT_DIR/include/LightGBM; arrow.h and
\* arrow.tpp are optional.
download_lightgbm_headers(LIGHTGBM_VERSION) ==
    {Ok({"c_api.h", "export.h"}),
     Ok({"c_api.h", "export.h", "arrow.h"}),
     Ok({"c_api.h", "export.h", "arrow.h", "arrow.tpp"}),
     HttpError("c_api.h"), HttpError("export.h")}

\* Ok carries the files left in OUT_DIR/libs.
download_and_extract_from_wheel(wheel_url, lib_filename) ==
    {Ok({lib_filename}), HttpError("wheel"),
     Err(Text("{} not found in wheel", <<lib_filename>>))}

download_and_extract_windows_libs(wheel_url) ==
    {Ok({"lib_lightgbm.dll", "lib_lightgbm.lib"}), HttpError("wheel"),
     Err(Text("lib_lightgbm.dll not found in wheel", <<>>)),
     Err(Text("lib_lightgbm.lib not found in wheel", <<>>))}

\* A panic of get_platform_info unwinds through the caller; Ok carries the
\* files left in OUT_DIR/libs.
download_compiled_library(target, LIGHTGBM_VERSION) ==
    LET info == get_platform_info(target)
    IN  IF info.kind = "Panic" THEN {info}
        ELSE
        LET os == info.value[1]
            arch == info.value[2]
            version == get_lightgbm_version(LIGHTGBM_VERSION)
        IN  {Err(Text("create_dir_all", <<>>))} \cup
            CASE os = "darwin" /\ arch \in {"aarch64", "x86_64"} ->
                   LET wheel_arch == IF arch = "aarch64" THEN "arm64" ELSE "x86_64"
                       macos_version == IF arch = "aarch64" THEN "12_0" ELSE "10_15"
                   IN  download_and_extract_from_wheel(
                           Text("https://github.com/microsoft/LightGBM/releases/download/v{}/lightgbm-{}-py3-none-macosx_{}_{}.whl",
                                <<version, version, macos_version, wheel_arch>>),
                           "lib_lightgbm.dylib")
              [] os = "linux" /\ arch \in {"aarch64", "x86_64"} ->
                   LET wheel_platform == IF arch = "aarch64"
                                         THEN "manylinux2014_aarch64"
                                         ELSE "manylinux_2_28_x86_64"
                   IN  download_and_extract_from_wheel(
                           Text("https://github.com/microsoft/LightGBM/releases/download/v{}/lightgbm-{}-py3-none-{}.whl",
                                <<version, version, wheel_platform>>),
                           "lib_lightgbm.so")
              [] os = "windows" /\ arch = "x86_64" ->
                   download_and_extract_windows_libs(
                       Text("https://github.com/microsoft/LightGBM/releases/download/v{}/lightgbm-{}-py3-none-win_amd64.whl",
                            <<version, version>>))
              [] os = "windows" /\ arch = "i686" ->
                   {Err(Text("Windows 32-bit (i686) is not supported by LightGBM releases. Please use x86_64 Windows or compile LightGBM from source.", <<>>))}
              [] os = "windows" /\ arch = "aarch64" ->
                   {Err(Text("Windows ARM64 is not currently supported by LightGBM releases. Please use x86_64 Windows or compile LightGBM from source.", <<>>))}
              [] OTHER ->
                   {Err(Text("Unsupported platform/architecture combination: {} / {}",
                             <<os, arch>>))}

\* main: the library file copied next to the build's output.
lib_filename(os) ==
    CASE os = "windows" -> "lib_lightgbm.dll"
      [] os = "darwin" -> "lib_lightgbm.dylib"
      [] OTHER -> "lib_lightgbm.so"

\* main: the cargo directives printed for the linker.
link_directives(os) ==
    <<"cargo:rustc-link-search=native={OUT_DIR}/libs">> \o
    CASE os = "darwin" ->
           <<"cargo:rustc-link-arg=-Wl,-rpath,@executable_path",
             "cargo:rustc-link-arg=-Wl,-rpath,@executable_path/../..",
             "cargo:rustc-link-arg=-Wl,-rpath,{OUT_DIR}/libs",
             "cargo:rustc-link-arg=-Wl,-rpath,{target}/debug",
             "cargo:rustc-link-arg=-Wl,-rpath,{target}/release",
             "cargo:rustc-link-lib=dylib=_lightgbm">>
      [] os = "linux" ->
           <<"cargo:rustc-link-arg=-Wl,-rpath,$ORIGIN",
             "cargo:rustc-link-arg=-Wl,-rpath,$ORIGIN/../..",
             "cargo:rustc-link-arg=-Wl,-rpath,{OUT_DIR}/libs",
             "cargo:rustc-link-lib=dylib=_lightgbm">>
      [] os = "windows" -> <<"cargo:rustc-link-lib=dylib=lib_lightgbm">>
      [] OTHER -> <<>>

\* ------------------------------------------------------- the state machine

VARIABLES
    boosters,   \* the Booster values the caller owns: slot -> None or a Booster
    op,         \* the activation: operation, arguments, native calls, result
    heap,       \* the handles the native library has created and not freed
    build       \* the run of the build script: its environment and progress

vars == <<boosters, op, heap, build>>

BoosterIds == 1..MaxBoosters

\* Inputs the caller may pass.
I32Vals == {I32Min, -1, 0, 1, 2, I32Max}
PredictTypes == {NORMAL, LEAF_INDEX}
DataBufs == {[i \in 1..n |-> i] : n \in 0..MaxDataLen}
TextStrings == {b \in ByteStrings : to_str(b) # None}

\* An activation: the operation, the slot and value of the Booster it runs on
\* (for a load, the slot its result goes to), its arguments, and how it ended.
Idle == [name |-> "idle", slot |-> 0, self |-> None, args |-> <<>>,
         calls |-> <<>>, result |-> Ok(Unit)]

Activation(name, slot, self, args, done) ==
    [name |-> name, slot |-> slot, self |-> self, args |-> args,
     calls |-> done.calls, result |-> done.result]

IsIdle == op.name = "idle"
IsLive(i) == boosters[i] # None
HasRoom == \E i \in BoosterIds : boosters[i] = None
FreeSlot == CHOOSE i \in BoosterIds :
                boosters[i] = None /\ \A j \in 1..(i - 1) : boosters[j] # None

\* A load's result reaches the caller: an Ok value is a new Booster the caller
\* owns, an Err leaves nothing behind.
Returned(name, args, done) ==
    /\ op' = Activation(name, FreeSlot, None, args, done)
    /\ boosters' = IF done.result.kind = "Ok"
                   THEN [boosters EXCEPT ![FreeSlot] = done.result.value]
                   ELSE boosters
    /\ UNCHANGED build

PredictArgs(data, num_rows, num_cols, predict_type) ==
    [data |-> data, num_rows |-> num_rows, num_cols |-> num_cols,
     predict_type |-> predict_type]

\* The build script has not run.
NotStarted ==
    [pc |-> "not_started", TARGET |-> <<>>, LIGHTGBM_VERSION |-> None,
     include |-> {}, libs |-> {}, stages |-> <<>>, copied |-> None,
     directives |-> <<>>, panic |-> None]

Init ==
    /\ boosters = [i \in BoosterIds |-> None]
    /\ op = Idle
    /\ heap = {}
    /\ build = NotStarted

Load ==
    /\ IsIdle
    /\ HasRoom
    /\ \E path \in ByteStrings :
          \E done \in load(path) : Returned("load", [path |-> path], done)

LoadFromString ==
    /\ IsIdle
    /\ HasRoom
    /\ \E model_str \in TextStrings :
          \E done \in load_from_string(model_str) :
             Returned("load_from_string", [model_str |-> model_str], done)

LoadFromBuffer ==
    /\ IsIdle
    /\ HasRoom
    /\ \E buffer \in ByteStrings :
          \E done \in load_from_buffer(buffer) :
             Returned("load_from_buffer", [buffer |-> buffer], done)

NumFeatures ==
    /\ IsIdle
    /\ \E i \in BoosterIds :
          /\ IsLive(i)
          /\ \E done \in num_features(boosters[i]) :
                /\ op' = Activation("num_features", i, boosters[i], <<>>, done)
    /\ UNCHANGED <<boosters, build>>

NumClasses ==
    /\ IsIdle
    /\ \E i \in BoosterIds :
          /\ IsLive(i)
          /\ \E done \in num_classes(boosters[i]) :
                /\ op' = Activation("num_classes", i, boosters[i], <<>>, done)
    /\ UNCHANGED <<boosters, build>>

Predict ==
    /\ IsIdle
    /\ \E i \in BoosterIds, data \in DataBufs, num_rows \in I32Vals,
          num_cols \in I32Vals, predict_type \in PredictTypes :
          /\ IsLive(i)
          /\ \E done \in predict(boosters[i], data, num_rows, num_cols,
                                 predict_type) :
                /\ op' = Activation("predict", i, boosters[i],
                            PredictArgs(data, num_rows, num_cols, predict_type),
                            done)
    /\ UNCHANGED <<boosters, build>>

PredictF32 ==
    /\ IsIdle
    /\ \E i \in BoosterIds, data \in DataBufs, num_rows \in I32Vals,
          num_cols \in I32Vals, predict_type \in PredictTypes :
          /\ IsLive(i)
          /\ \E done \in predict_f32(boosters[i], data, num_rows, num_cols,
                                     predict_type) :
                /\ op' = Activation("predict_f32", i, boosters[i],
                            PredictArgs(data, num_rows, num_cols, predict_type),
                            done)
    /\ UNCHANGED <<boosters, build>>

\* A destructor after which the caller can still use the Booster.
Drop_value_survives ==
    /\ IsIdle
    /\ \E i \in BoosterIds :
          /\ IsLive(i)
          /\ \E done \in drop(boosters[i]) :
                /\ op' = Activation("drop", i, boosters[i], <<>>, done)
    /\ UNCHANGED <<boosters, build>>

\* The Booster goes out of scope: Drop::drop runs and the value is gone.
Drop ==
    /\ IsIdle
    /\ \E i \in BoosterIds :
          /\ IsLive(i)
          /\ \E done \in drop(boosters[i]) :
                /\ op' = Activation("drop", i, boosters[i], <<>>, done)
          /\ boosters' = [boosters EXCEPT ![i] = None]
    /\ UNCHANGED build

\* The caller takes the result; the activation is over.
Return ==
    /\ ~IsIdle
    /\ op' = Idle
    /\ UNCHANGED <<boosters, build>>

\* The native library is free in what it returns; what it holds is not
\* followed.
Next ==
    \/ Load /\ UNCHANGED heap
    \/ LoadFromString /\ UNCHANGED heap
    \/ LoadFromBuffer /\ UNCHANGED heap
    \/ NumFeatures /\ UNCHANGED heap
    \/ NumClasses /\ UNCHANGED heap
    \/ Predict /\ UNCHANGED heap
    \/ PredictF32 /\ UNCHANGED heap
    \/ Drop /\ UNCHANGED heap
    \/ Return /\ UNCHANGED heap

Spec == Init /\ [][Next]_vars

\* The native library as an allocator: the handle a create or load call stores
\* when it returns 0 is not null and stands for no model created earlier and
\* not yet freed.
Allocator ==
    \A k \in 1..Len(op'.calls) :
        Created(op'.calls[k]) =>
            op'.calls[k].out_after \notin heap \cup {NullHandle}

\* The native library's handles follow the calls made in the step.
Tracked == heap' = HeapAfter(heap, op'.calls)

NextAlloc ==
    \/ Load /\ Allocator /\ Tracked
    \/ LoadFromString /\ Allocator /\ Tracked
    \/ LoadFromBuffer /\ Allocator /\ Tracked
    \/ NumFeatures /\ Tracked
    \/ NumClasses /\ Tracked
    \/ Predict /\ Tracked
    \/ PredictF32 /\ Tracked
    \/ Drop /\ Tracked
    \/ Return /\ Tracked

SpecAlloc == Init /\ [][NextAlloc]_vars

TypeOK ==
    /\ \A i \in BoosterIds :
          boosters[i] = None \/ boosters[i] \in [handle : Handles]
    /\ op.result.kind \in {"Ok", "Err", "Panic"}

\* ------------------------------------------------- the build script (main)

\* Target triples cargo may put in TARGET.
\* x86_64-apple-darwin
TARGET_x86_64_apple_darwin ==
    <<"x", "8", "6", "_", "6", "4", "-", "a", "p", "p", "l", "e", "-",
      "d", "a", "r", "w", "i", "n">>
\* aarch64-apple-darwin
TARGET_aarch64_apple_darwin ==
    <<"a", "a", "r", "c", "h", "6", "4", "-", "a", "p", "p", "l", "e",
      "-", "d", "a", "r", "w", "i", "n">>
\* x86_64-unknown-linux-gnu
TARGET_x86_64_unknown_linux_gnu ==
    <<"x", "8", "6", "_", "6", "4", "-", "u", "n", "k", "n", "o", "w",
      "n", "-", "l", "i", "n", "u", "x", "-", "g", "n", "u">>
\* aarch64-unknown-linux-gnu
TARGET_aarch64_unknown_linux_gnu ==
    <<"a", "a", "r", "c", "h", "6", "4", "-", "u", "n", "k", "n", "o",
      "w", "n", "-", "l", "i", "n", "u", "x", "-", "g", "n", "u">>
\* x86_64-pc-windows-msvc
TARGET_x86_64_pc_windows_msvc ==
    <<"x", "8", "6", "_", "6", "4", "-", "p", "c", "-", "w", "i", "n",
      "d", "o", "w", "s", "-", "m", "s", "v", "c">>
\* i686-pc-windows-msvc
TARGET_i686_pc_windows_msvc ==
    <<"i", "6", "8", "6", "-", "p", "c", "-", "w", "i", "n", "d", "o",
      "w", "s", "-", "m", "s", "v", "c">>
\* aarch64-pc-windows-msvc
TARGET_aarch64_pc_windows_msvc ==
    <<"a", "a", "r", "c", "h", "6", "4", "-", "p", "c", "-", "w", "i",
      "n", "d", "o", "w", "s", "-", "m", "s", "v", "c">>
\* i686-unknown-linux-gnu
TARGET_i686_unknown_linux_gnu ==
    <<"i", "6", "8", "6", "-", "u", "n", "k", "n", "o", "w", "n", "-",
      "l", "i", "n", "u", "x", "-", "g", "n", "u">>
\* armv7-unknown-linux-gnueabihf
TARGET_armv7_unknown_linux_gnueabihf ==
    <<"a", "r", "m", "v", "7", "-", "u", "n", "k", "n", "o", "w", "n",
      "-", "l", "i", "n", "u", "x", "-", "g", "n", "u", "e", "a", "b",
      "i", "h", "f">>
\* x86_64-unknown-freebsd
TARGET_x86_64_unknown_freebsd ==
    <<"x", "8", "6", "_", "6", "4", "-", "u", "n", "k", "n", "o", "w",
      "n", "-", "f", "r", "e", "e", "b", "s", "d">>
\* aarch64-apple-ios
TARGET_aarch64_apple_ios ==
    <<"a", "a", "r", "c", "h", "6", "4", "-", "a", "p", "p", "l", "e",
      "-", "i", "o", "s">>
\* aarch64-linux-android
TARGET_aarch64_linux_android ==
    <<"a", "a", "r", "c", "h", "6", "4", "-", "l", "i", "n", "u", "x",
      "-", "a", "n", "d", "r", "o", "i", "d">>

Targets ==
    {TARGET_x86_64_apple_darwin,
     TARGET_aarch64_apple_darwin,
     TARGET_x86_64_unknown_linux_gnu,
     TARGET_aarch64_unknown_linux_gnu,
     TARGET_x86_64_pc_windows_msvc,
     TARGET_i686_pc_windows_msvc,
     TARGET_aarch64_pc_windows_msvc,
     TARGET_i686_unknown_linux_gnu,
     TARGET_armv7_unknown_linux_gnueabihf,
     TARGET_x86_64_unknown_freebsd,
     TARGET_aarch64_apple_ios,
     TARGET_aarch64_linux_android}

EnvVersions == {None, Some("4.5.0")}

Panicked(message) ==
    build' = [build EXCEPT !.pc = "panicked", !.panic = Some(message)]

\* cargo runs the build script with TARGET and, possibly, LIGHTGBM_VERSION.
BuildStart ==
    /\ build.pc = "not_started"
    /\ \E target \in Targets, version \in EnvVersions :
          build' = [build EXCEPT !.pc = "headers", !.TARGET = target,
                                 !.LIGHTGBM_VERSION = version]
    /\ UNCHANGED <<boosters, op, heap>>

BuildHeaders ==
    /\ build.pc = "headers"
    /\ \E r \in download_lightgbm_headers(build.LIGHTGBM_VERSION) :
          IF r.kind = "Err"
          THEN Panicked("Cannot proceed without headers")
          ELSE build' = [build EXCEPT !.pc = "library", !.include = r.value,
                                      !.stages = @ \o <<"headers">>]
    /\ UNCHANGED <<boosters, op, heap>>

BuildLibrary ==
    /\ build.pc = "library"
    /\ \E r \in download_compiled_library(build.TARGET,
                                          build.LIGHTGBM_VERSION) :
          CASE r.kind = "Panic" -> Panicked(r.message)
            [] r.kind = "Err" ->
                 Panicked("Cannot proceed without compiled library")
            [] OTHER ->
                 build' = [build EXCEPT !.pc = "bindings", !.libs = r.value,
                                        !.stages = @ \o <<"library">>]
    /\ UNCHANGED <<boosters, op, heap>>

\* bindgen's generate and write_to_file, each under expect.
BuildBindings ==
    /\ build.pc = "bindings"
    /\ \/ Panicked("Unable to generate bindings.")
       \/ Panicked("Couldn't write bindings.")
       \/ build' = [build EXCEPT !.pc = "copy",
                                  !.stages = @ \o <<"bindings">>]
    /\ UNCHANGED <<boosters, op, heap>>

\* fs::copy of OUT_DIR/libs/<lib_filename> under expect: it fails when the
\* file is not there, and may fail when it is.
BuildCopy ==
    /\ build.pc = "copy"
    /\ LET info == get_platform_info(build.TARGET)
       IN  IF info.kind = "Panic" THEN Panicked(info.message)
           ELSE \/ Panicked("Failed to copy library to target directory")
                \/ /\ lib_filename(info.value[1]) \in build.libs
                   /\ build' = [build EXCEPT
                                    !.pc = "link",
                                    !.copied = Some(lib_filename(info.value[1])),
                                    !.stages = @ \o <<"copy">>]
    /\ UNCHANGED <<boosters, op, heap>>

BuildLink ==
    /\ build.pc = "link"
    /\ build' = [build EXCEPT
                    !.pc = "done",
                    !.directives =
                        link_directives(get_platform_info(build.TARGET).value[1]),
                    !.stages = @ \o <<"link">>]
    /\ UNCHANGED <<boosters, op, heap>>

NextBuild ==
    \/ BuildStart
    \/ BuildHeaders
    \/ BuildLibrary
    \/ BuildBindings
    \/ BuildCopy
    \/ BuildLink

SpecBuild == Init /\ [][NextBuild]_vars

\* ================================================================ claims

IsPredict == op.name \in {"predict", "predict_f32"}
IsLoad == op.name \in {"load", "load_from_string", "load_from_buffer"}

\* The value of a count converted to the address-sized unsigned integer.
Unsigned(x) == x % USizeMod
ProductOverflows == Unsigned(op.args.num_rows) * Unsigned(op.args.num_cols) > USizeMax

OverflowText ==
    "Integer overflow when computing expected data size: num_rows ({}) * num_cols ({})"
MismatchText ==
    "Input data size mismatch: expected {} elements ({}x{}), got {}"

OverflowError ==
    Err(LightGBMError(Text(OverflowText, <<op.args.num_rows, op.args.num_cols>>)))
MismatchError ==
    Err(LightGBMError(Text(MismatchText,
        <<Unsigned(op.args.num_rows) * Unsigned(op.args.num_cols),
          op.args.num_rows, op.args.num_cols, Len(op.args.data)>>)))

\* C1 as stated: a predict or predict_f32 call whose num_rows * num_cols
\* differs from the data length returns the size-mismatch Error (expected
\* versus actual size) and has issued no native call.
C1_MismatchStatesSizes ==
    (IsPredict /\ op.args.num_rows * op.args.num_cols # Len(op.args.data))
        => /\ op.calls = <<>>
           /\ op.result.kind = "Err"
           /\ op.result.error.description.template = MismatchText

\* C1 (amended): a predict or predict_f32 call whose num_rows * num_cols
\* differs from the data length has issued no native call and returns a
\* locally built Error: the size-mismatch Error stating expected versus actual
\* size when the product of the counts, converted to address-sized unsigned
\* integers, does not overflow, and the overflow Error when it does.
C1_MismatchIsLocalError ==
    (IsPredict /\ op.args.num_rows * op.args.num_cols # Len(op.args.data))
        => /\ op.calls = <<>>
           /\ op.result = IF ProductOverflows THEN OverflowError ELSE MismatchError

C1_Witness ==
    /\ op.name = "predict"
    /\ op.args.num_rows = 1 /\ op.args.num_cols = 2 /\ Len(op.args.data) = 1
    /\ op.result = MismatchError
    /\ op.calls = <<>>

\* C2: a predict or predict_f32 call whose counts, converted to address-sized
\* unsigned integers, have an overflowing product returns the overflow Error
\* naming both operands, whatever the data length (the overflow is decided
\* before the lengths are compared), and has issued no native call.
C2_OverflowIsLocalError ==
    (IsPredict /\ ProductOverflows)
        => /\ op.calls = <<>>
           /\ op.result = OverflowError

C2_Witness ==
    /\ op.name = "predict_f32"
    /\ op.args.num_rows = -1 /\ op.args.num_cols = 2
    /\ op.result = OverflowError
    /\ op.calls = <<>>

IsFree(c) == c.fn = "LGBM_BoosterFree"
IsGetLastError(c) == c.fn = "LGBM_GetLastError"
IsPredictCall(c) == c.fn = "LGBM_BoosterPredictForMat"
IsCreateCall(c) ==
    c.fn \in {"LGBM_BoosterCreateFromModelfile", "LGBM_BoosterLoadModelFromString"}

\* C3: in every step, the free calls issued are exactly one per Booster that
\* stops being owned in that step: a Booster leaves only through Drop, whose
\* single native call is the free of that Booster's handle, and no other
\* operation (load, query or predict, however it ends) issues a free call or
\* loses a Booster.
C3_ExactlyOneFreePerDrop ==
    [][LET frees == SelectSeq(op'.calls, IsFree)
           gone == {i \in BoosterIds :
                       boosters[i] # None /\ boosters'[i] # boosters[i]}
       IN  /\ Len(frees) = Cardinality(gone)
           /\ \A i \in gone :
                 /\ op'.name = "drop"
                 /\ boosters'[i] = None
                 /\ op'.calls = <<frees[1]>>
                 /\ frees[1].handle = boosters[i].handle]_vars

C3_Witness ==
    /\ op.name = "drop"
    /\ op.self.handle # NullHandle
    /\ Len(op.calls) = 1
    /\ IsFree(op.calls[1])
    /\ op.calls[1].handle = op.self.handle
    /\ boosters[op.slot] = None

\* C4: a predict or predict_f32 call that returns a buffer issued exactly two
\* native predict calls: a length query with a null output pointer and out_len
\* 0, then a fill call with a zeroed buffer of exactly the length the query
\* reported; both carry the Booster's handle, the caller's data, dimensions
\* and prediction kind, row-major 1, start iteration 0 and iteration count -1,
\* and the buffer returned has the length the query reported.
C4_TwoPhaseProtocol ==
    (IsPredict /\ op.result.kind = "Ok")
        => /\ Len(op.calls) = 2
           /\ \A k \in 1..2 :
                 /\ IsPredictCall(op.calls[k])
                 /\ op.calls[k].handle = op.self.handle
                 /\ op.calls[k].data = op.args.data
                 /\ op.calls[k].nrow = op.args.num_rows
                 /\ op.calls[k].ncol = op.args.num_cols
                 /\ op.calls[k].predict_type = op.args.predict_type
                 /\ op.calls[k].is_row_major = 1
                 /\ op.calls[k].start_iteration = 0
                 /\ op.calls[k].num_iteration = -1
                 /\ op.calls[k].ret = 0
           /\ op.calls[1].data_type = op.calls[2].data_type
           /\ op.calls[1].out_result = NullPtr
           /\ op.calls[1].out_len = 0
           /\ op.calls[2].out_len = op.calls[1].out_len_after
           /\ op.calls[2].out_result =
                 Buffer([i \in 1..op.calls[1].out_len_after |-> 0])
           /\ Len(op.result.value) = op.calls[1].out_len_after

C4_Witness ==
    /\ op.name = "predict"
    /\ op.self.handle # NullHandle
    /\ op.args.num_rows = 1 /\ op.args.num_cols = 2
    /\ op.result.kind = "Ok"
    /\ Len(op.calls) = 2
    /\ op.calls[1].out_len_after = 2
    /\ op.result.value = <<1, 1>>

\* C5: a predict or predict_f32 call with non-negative counts whose product is
\* the data length ends by returning a buffer or an Error built from the
\* native last-error message, whatever the native layer returned and
\* reported; it never panics.
C5_NeverPanics ==
    (/\ IsPredict
     /\ op.args.num_rows >= 0 /\ op.args.num_cols >= 0
     /\ op.args.num_rows * op.args.num_cols = Len(op.args.data))
        => \/ op.result.kind = "Ok"
           \/ /\ op.result.kind = "Err"
              /\ IsGetLastError(op.calls[Len(op.calls)])

IsUtf8(bytes) == ValidUpTo(bytes, 0) = Len(bytes)
HasNul(bytes) == \E i \in 1..Len(bytes) : bytes[i] = 0
\* Position (from 0) of the first NUL.
FirstNul(bytes) ==
    (CHOOSE i \in 1..Len(bytes) :
        bytes[i] = 0 /\ \A j \in 1..(i - 1) : bytes[j] # 0) - 1

\* C6: load_from_buffer on bytes that are not UTF-8 returns the decode Error
\* and has issued no native call; on valid UTF-8 it ends in one of the ways
\* load_from_string ends on the same text, and the two have the same ways to
\* end.
C6_BufferDecodesThenDelegates ==
    (op.name = "load_from_buffer")
        => IF ~IsUtf8(op.args.buffer)
           THEN /\ op.calls = <<>>
                /\ op.result = Err(LightGBMError(
                       Text("Invalid UTF-8 in model buffer: {}",
                            <<ValidUpTo(op.args.buffer, 0)>>)))
           ELSE /\ Done(op.calls, op.result) \in load_from_string(op.args.buffer)
                /\ load_from_buffer(op.args.buffer) = load_from_string(op.args.buffer)

C6_Witness ==
    /\ op.name = "load_from_buffer"
    /\ op.args.buffer = <<65, 195>>
    /\ op.calls = <<>>
    /\ op.result.kind = "Err"

\* C7: load on a path that is not UTF-8 or holds a NUL, and load_from_string
\* on text that holds a NUL, return the locally built encoding Error and have
\* issued no native call (no create/load call, no get-last-error call).
C7_EncodingErrorsAreLocal ==
    /\ (op.name = "load" /\ (~IsUtf8(op.args.path) \/ HasNul(op.args.path)))
          => /\ op.calls = <<>>
             /\ op.result = Err(LightGBMError(
                    IF ~IsUtf8(op.args.path)
                    THEN Text("Path contains invalid UTF-8 characters", <<>>)
                    ELSE Text("Path contains NUL byte: {}",
                              <<FirstNul(op.args.path)>>)))
    /\ (op.name = "load_from_string" /\ HasNul(op.args.model_str))
          => /\ op.calls = <<>>
             /\ op.result = Err(LightGBMError(
                    Text("Model string contains NUL byte: {}",
                         <<FirstNul(op.args.model_str)>>)))

C7_Witness ==
    /\ op.name = "load_from_string"
    /\ op.args.model_str = <<65, 0>>
    /\ op.calls = <<>>
    /\ op.result.kind = "Err"
    /\ op.result.error.description.args = <<1>>

\* C8: a load, load_from_string or load_from_buffer step issues at most one
\* native create/load call and no free call; it returns a Booster only when
\* that call returned 0, and the caller then owns exactly that one new
\* Booster; when that call returned a non-zero code it returns an Error; and
\* whenever it returns an Error the caller's Boosters are as they were.
C8_LoadIsAtomic ==
    [][(op'.name \in {"load", "load_from_string", "load_from_buffer"})
        => LET creates == SelectSeq(op'.calls, IsCreateCall)
           IN  /\ Len(creates) <= 1
               /\ SelectSeq(op'.calls, IsFree) = <<>>
               /\ op'.result.kind \in {"Ok", "Err"}
               /\ (op'.result.kind = "Ok")
                     => /\ Len(creates) = 1
                        /\ creates[1].ret = 0
                        /\ op'.result.value = Booster(creates[1].out_after)
                        /\ boosters[op'.slot] = None
                        /\ boosters' = [boosters EXCEPT
                                           ![op'.slot] = op'.result.value]
               /\ (creates # <<>> /\ creates[1].ret # 0)
                     => op'.result.kind = "Err"
               /\ (op'.result.kind = "Err") => boosters' = boosters]_vars

C8_Witness ==
    /\ op.name = "load"
    /\ Len(op.calls) = 2
    /\ IsCreateCall(op.calls[1])
    /\ op.calls[1].ret # 0
    /\ op.result.kind = "Err"
    /\ \A i \in BoosterIds : boosters[i] = None

\* C9: every Booster the caller owns holds a non-null handle, whatever the
\* native create/load call left in its handle out-parameter when it returned 0.
C9_HandleNeverNull ==
    \A i \in BoosterIds : boosters[i] # None => boosters[i].handle # NullHandle

\* The Error check_return_value builds from the bytes get-last-error returned.
ErrorFrom(msg) ==
    Err(LightGBMError(IF IsUtf8(msg) THEN Text("{}", msg)
                      ELSE Text("Unknown error", <<>>)))

\* Every native call that returned a non-zero code is followed at once by one
\* get-last-error call, which is the last call and whose message is the
\* description of the Error returned; a get-last-error call follows only a
\* call that returned a non-zero code.
Translated ==
    \A k \in 1..Len(op.calls) :
        IF IsGetLastError(op.calls[k])
        THEN /\ k > 1
             /\ ~IsGetLastError(op.calls[k - 1])
             /\ op.calls[k - 1].ret # 0
        ELSE IF op.calls[k].ret # 0
        THEN /\ k + 1 = Len(op.calls)
             /\ IsGetLastError(op.calls[k + 1])
             /\ op.result = ErrorFrom(op.calls[k + 1].ret)
        ELSE k < Len(op.calls) => ~IsGetLastError(op.calls[k + 1])

TakesHandle(c) == "handle" \in DOMAIN c

\* The handle of every native call of the step is one the native library
\* holds when the step begins, and a handle that has been freed is passed to
\* no later call of the step.
RECURSIVE CallsOnLiveHandles(_, _)
CallsOnLiveHandles(live, calls) ==
    IF calls = <<>> THEN TRUE
    ELSE /\ TakesHandle(Head(calls)) => Head(calls).handle \in live
         /\ CallsOnLiveHandles(HeapAfter(live, <<Head(calls)>>), Tail(calls))

NoSharedHandle ==
    \A i, j \in BoosterIds :
        IsLive(i) /\ IsLive(j) /\ i # j => boosters[i].handle # boosters[j].handle

\* C11: with a native library that hands out handles as an allocator does,
\* over every sequence of loads, queries, predictions and drops no two live
\* Boosters hold the same handle, every live Booster's handle is one the native
\* library still holds, and every native call that takes a handle (the free
\* call included, so no handle is freed twice) is issued on a handle that has
\* not been freed; the free call is the last call on its handle.
C11_HandleLifetime ==
    /\ [](NoSharedHandle /\ \A i \in BoosterIds :
                                IsLive(i) => boosters[i].handle \in heap)
    /\ [][CallsOnLiveHandles(heap, op'.calls)]_vars

\* A Booster is dropped while another one lives, after which the freed handle
\* is gone from the native library and the other is still held.
C11_Witness ==
    /\ op.name = "drop"
    /\ \E c \in {op.calls[k] : k \in 1..Len(op.calls)} :
          IsFree(c) /\ c.handle = op.self.handle /\ c.handle \notin heap
    /\ \E i \in BoosterIds : IsLive(i) /\ boosters[i].handle \in heap

\* ------------------------------------------------------------------- C12

CallsOf(calls) == {calls[k] : k \in 1..Len(calls)}

\* Two native predict calls pass the same arguments, the handle apart.
SameArguments(c1, c2) ==
    /\ c1.data = c2.data
    /\ c1.data_type = c2.data_type
    /\ c1.nrow = c2.nrow
    /\ c1.ncol = c2.ncol
    /\ c1.is_row_major = c2.is_row_major
    /\ c1.predict_type = c2.predict_type
    /\ c1.start_iteration = c2.start_iteration
    /\ c1.num_iteration = c2.num_iteration
    /\ c1.parameter = c2.parameter
    /\ c1.out_len = c2.out_len
    /\ c1.out_result = c2.out_result

SameResponse(c1, c2) ==
    /\ c1.ret = c2.ret
    /\ c1.out_len_after = c2.out_len_after
    /\ c1.out_result_after = c2.out_result_after

\* The native library answered the predict calls of two runs on handles of
\* the same model as a function of the call arguments.
NativeDeterministic(calls1, calls2) ==
    \A k1 \in 1..Len(calls1), k2 \in 1..Len(calls2) :
        /\ IsPredictCall(calls1[k1])
        /\ IsPredictCall(calls2[k2])
        /\ SameArguments(calls1[k1], calls2[k2])
        => SameResponse(calls1[k1], calls2[k2])

\* The runs of the operation of the activation on a Booster with the
\* activation's arguments.
RunOn(self) ==
    IF op.name = "predict"
    THEN predict(self, op.args.data, op.args.num_rows, op.args.num_cols,
                 op.args.predict_type)
    ELSE predict_f32(self, op.args.data, op.args.num_rows, op.args.num_cols,
                     op.args.predict_type)

TargetPlatform(target) ==
    CASE target = TARGET_x86_64_apple_darwin -> <<"macos", "x86_64">>
      [] target = TARGET_aarch64_apple_darwin -> <<"macos", "aarch64">>
      [] target = TARGET_x86_64_unknown_linux_gnu -> <<"linux", "x86_64">>
      [] target = TARGET_aarch64_unknown_linux_gnu -> <<"linux", "aarch64">>
      [] target = TARGET_x86_64_pc_windows_msvc -> <<"windows", "x86_64">>
      [] target = TARGET_i686_pc_windows_msvc -> <<"windows", "x86">>
      [] target = TARGET_aarch64_pc_windows_msvc -> <<"windows", "aarch64">>
      [] target = TARGET_i686_unknown_linux_gnu -> <<"linux", "x86">>
      [] target = TARGET_armv7_unknown_linux_gnueabihf -> <<"linux", "arm">>
      [] target = TARGET_x86_64_unknown_freebsd -> <<"freebsd", "x86_64">>
      [] target = TARGET_aarch64_apple_ios -> <<"ios", "aarch64">>
      [] target = TARGET_aarch64_linux_android -> <<"android", "aarch64">>

SupportedPlatforms ==
    {<<"macos", "x86_64">>, <<"macos", "aarch64">>, <<"linux", "x86_64">>,
     <<"linux", "aarch64">>, <<"windows", "x86_64">>}

PastAcquisition ==
    \E k \in 1..Len(build.stages) :
        build.stages[k] \in {"library", "bindings", "copy", "link"}

\* C13: the build gets past library acquisition (and so to binding
\* generation, library copy and linker configuration) only when the target is
\* macOS or Linux on x86_64 or aarch64, or Windows on x86_64; for a target of
\* any other operating system or architecture none of these stages is
\* performed.
C13_OnlySupportedTargetsProceed ==
    PastAcquisition => TargetPlatform(build.TARGET) \in SupportedPlatforms

\* ------------------------------------------------------------------- C15

\* A run with the element type tag of its native predict calls replaced.
Retagged(calls, result, tag) ==
    Done([k \in DOMAIN calls |->
             IF IsPredictCall(calls[k])
             THEN [calls[k] EXCEPT !.data_type = tag]
             ELSE calls[k]],
         result)

TagsAre(calls, tag) ==
    \A c \in CallsOf(calls) : IsPredictCall(c) => c.data_type = tag

\* C15: every run of predict is, with the 64-bit tag of its native calls
\* replaced by the 32-bit tag, a run of predict_f32 on the same Booster, data
\* length, dimensions and prediction kind (same validation outcome, same
\* native calls with the same arguments and responses in the same order, same
\* result), and every run of predict_f32 is in the same way a run of predict;
\* predict passes the 64-bit tag and predict_f32 the 32-bit tag in every
\* native predict call.
C15_SameAlgorithm ==
    /\ op.name = "predict" =>
          /\ TagsAre(op.calls, "C_API_DTYPE_FLOAT64")
          /\ Retagged(op.calls, op.result, "C_API_DTYPE_FLOAT32") \in
                 predict_f32(op.self, op.args.data, op.args.num_rows,
                             op.args.num_cols, op.args.predict_type)
    /\ op.name = "predict_f32" =>
          /\ TagsAre(op.calls, "C_API_DTYPE_FLOAT32")
          /\ Retagged(op.calls, op.result, "C_API_DTYPE_FLOAT64") \in
                 predict(op.self, op.args.data, op.args.num_rows,
                         op.args.num_cols, op.args.predict_type)

\* predict_f32 made both native calls and returned the buffer the fill call
\* wrote to.
C15_Witness ==
    /\ op.name = "predict_f32"
    /\ op.result.kind = "Ok"
    /\ Len(op.result.value) > 0
    /\ Len(op.calls) = 2
    /\ op.calls[2].data_type = "C_API_DTYPE_FLOAT32"

\* ------------------------------------------------------------------- C16

IsLengthQuery(c) == IsPredictCall(c) /\ c.out_result.null
IsFill(c) == IsPredictCall(c) /\ ~c.out_result.null

\* C16: in predict and predict_f32, a native predict call that returns a
\* non-zero code ends the operation with an Error (so no buffer reaches the
\* caller) and is followed by the get-last-error call and nothing else: a
\* failed length query is followed by no fill call, and no call is issued
\* again.  There is at most one length query and at most one fill call, and
\* the Booster is the caller's as before, with the handle it had.
C16_FailurePropagation ==
    IsPredict =>
        /\ \A k \in 1..Len(op.calls) :
              IsPredictCall(op.calls[k]) /\ op.calls[k].ret # 0 =>
                  /\ op.result.kind = "Err"
                  /\ Len(op.calls) = k + 1
                  /\ IsGetLastError(op.calls[k + 1])
        /\ Cardinality({k \in 1..Len(op.calls) : IsLengthQuery(op.calls[k])}) <= 1
        /\ Cardinality({k \in 1..Len(op.calls) : IsFill(op.calls[k])}) <= 1
        /\ IsLive(op.slot)
        /\ boosters[op.slot] = op.self

\* The length query succeeded and the fill call failed: an Error came back,
\* nothing was called after the get-last-error call, and the Booster is still
\* there.
C16_Witness ==
    /\ IsPredict
    /\ Len(op.calls) = 3
    /\ IsLengthQuery(op.calls[1]) /\ op.calls[1].ret = 0
    /\ IsFill(op.calls[2]) /\ op.calls[2].ret # 0
    /\ IsGetLastError(op.calls[3])
    /\ op.result.kind = "Err"
    /\ boosters[op.slot] = op.self

\* ------------------------------------------------------------------- C17

\* C17: a predict or predict_f32 call with a negative num_rows or num_cols,
\* whatever the data and the other count, returns an Error built without any
\* native call, so no negative count is passed to the native library.
C17_NegativeCountsRejected ==
    IsPredict /\ (op.args.num_rows < 0 \/ op.args.num_cols < 0) =>
        /\ op.result.kind = "Err"
        /\ op.calls = <<>>

====
